---- MODULE Spec2Model ----
(***************************************************************************)
(* A model of shelltool.py: CLITool command nodes, the OS process each one  *)
(* spawns, its two drainer threads (_stdout_reader / _stderr_reader), the   *)
(* optional execution thread of background mode, and one caller thread      *)
(* ("main") that invokes the public operations.                             *)
(*                                                                         *)
(* Bytes are sequences of one-character strings.  An optional value         *)
(* (Python's None or a value) is the empty tuple or a one-element tuple.    *)
(***************************************************************************)
EXTENDS Integers, Sequences, FiniteSets, TLC

\* ------------------------------------------------------------------ bounds
\* The most chunks a process writes to its stdout / stderr.
MaxOut == 1
MaxErr == 1
\* The most run() calls the caller makes on one node.
MaxRuns == 2
\* The most accessor reads the caller makes on a completed node.
MaxReads == 2

Nodes == {"A", "B"}
Streams == {"out", "err"}
Accessors == {"stdout", "stderr", "all"}

LF == "\n"
None == << >>
Some(v) == <<v>>

\* What the process of a node writes: the i-th write to a stream.  The odd
\* stdout chunks are terminated lines, the even ones are not.
Chunk(s, i) ==
  IF s = "err" THEN <<"e", LF>> ELSE IF i % 2 = 1 THEN <<"a", LF>> ELSE <<"b">>

\* Exit statuses of a process that exits on its own, and of one that is
\* terminated by SIGTERM (Popen reports -signal).
ExitCodes == {0, 1}
SIGTERM == 15

\* ------------------------------------------------------- pure functions
RECURSIVE Concat(_)
Concat(ss) == IF ss = << >> THEN << >> ELSE Head(ss) \o Concat(Tail(ss))

\* io.BufferedReader.readlines(): the lines of b, each with its terminator;
\* a last line without terminator is a line too.
RECURSIVE ReadLinesFrom(_, _)
ReadLinesFrom(b, cur) ==
  IF b = << >> THEN (IF cur = << >> THEN << >> ELSE <<cur>>)
  ELSE IF Head(b) = LF THEN <<Append(cur, LF)>> \o ReadLinesFrom(Tail(b), << >>)
  ELSE ReadLinesFrom(Tail(b), Append(cur, Head(b)))
ReadLines(b) == ReadLinesFrom(b, << >>)

\* bytes.splitlines() (keepends defaults to False): the lines of b without
\* their terminators.  The modelled processes write no "\r".
RECURSIVE SplitLinesFrom(_, _)
SplitLinesFrom(b, cur) ==
  IF b = << >> THEN (IF cur = << >> THEN << >> ELSE <<cur>>)
  ELSE IF Head(b) = LF THEN <<cur>> \o SplitLinesFrom(Tail(b), << >>)
  ELSE SplitLinesFrom(Tail(b), Append(cur, Head(b)))
splitlines(b) == SplitLinesFrom(b, << >>)

\* ------------------------------------------------------------------ state
VARIABLES
  nodes,            \* the CLITool objects that were constructed
  prog,             \* the command of each node: how many chunks its process
                    \* writes at most to each stream, its possible exit codes,
                    \* and whether it is a filter (it reads stdin to the end)
  concurrent,       \* CLITool.concurrent
  pipe_in,          \* CLITool.pipe_in: [kind: "none" | "node" | "bytes", node, bytes]
  pipe_in_type,     \* CLITool.pipe_in_type: "OUT" | "ERR" | "ALL"
  has_run,          \* CLITool.has_run
  process,          \* CLITool.process: 0 is None, k > 0 the k-th Popen of the node
  spawns,           \* number of Popen calls made for the node
  returncode,       \* Popen.returncode of the current handle (set by poll())
  thread,           \* CLITool.thread: "new" | "alive" | "dead"
  rpc,              \* position of the activation of run()/_run() of the node
  pin,              \* _run's local pipe_in (optional bytes)
  dpc,              \* position of each drainer thread
  dlines,           \* each drainer's list returned by readlines(), not yet handled
  dtmp,             \* each drainer's loaded value of _all_buffer during +=
  _stdout, _stderr, _all,
  _stdout_buffer, _stderr_buffer, _all_buffer,
  _stdout_queue, _stderr_queue, _all_queue,
  alive,            \* OS state of the current process: "none" | "running" | "exited"
  status,           \* its exit status once exited
  sigterm,          \* a SIGTERM was delivered and not yet acted on
  pipe,             \* bytes in each output pipe, not yet read
  closed,           \* the write end of the pipe is closed (the process exited)
  nwritten,         \* chunks the process wrote so far, per stream
  wrote,            \* every byte the process wrote, per stream (history)
  stdin,            \* bytes written to process.stdin
  stdin_writes,     \* number of writelines() calls on process.stdin
  stdin_closed,     \* process.stdin has been closed by the program
  mpc,              \* caller thread: position inside its current operation
  mop, mn, macc,    \* its current (or last) operation, target node, accessor
  mout,             \* next_stream_line's local stdout
  mlog,             \* the current accessor read began on a completed node
  mret, merr,       \* what the caller's last operation returned / raised
  runs,             \* run() calls the caller made per node
  readLog,          \* accessor reads of completed nodes: <<node, accessor, value>>
  obsOut, obsErr    \* __next__: queue lengths seen by its two empty() calls

cfgVars == <<nodes, prog, concurrent, pipe_in, pipe_in_type>>
bufVars == <<_stdout_buffer, _stderr_buffer, _all_buffer>>
finVars == <<_stdout, _stderr, _all>>
queueVars == <<_stdout_queue, _stderr_queue, _all_queue>>
drainVars == <<dpc, dlines, dtmp>>
osVars == <<alive, status, sigterm, pipe, closed, nwritten, wrote>>
popenVars == <<process, spawns, returncode, stdin, stdin_writes, stdin_closed>>
runVars == <<has_run, thread, rpc, pin>>
mainVars == <<mpc, mop, mn, macc, mout, mlog, mret, merr, runs, readLog, obsOut, obsErr>>
vars == <<cfgVars, bufVars, finVars, queueVars, drainVars, osVars, popenVars,
          runVars, mainVars>>

NoPipe == [kind |-> "none", node |-> "A", bytes |-> << >>]
FromNode(a) == [kind |-> "node", node |-> a, bytes |-> << >>]
\* A returned value: nothing yet, the node itself, optional bytes (an
\* accessor), or the pair of next_stream_line.
NoRet == [kind |-> "none", val |-> None, pair |-> <<None, None>>]
RetSelf == [NoRet EXCEPT !.kind = "self"]
RetBytes(v) == [NoRet EXCEPT !.kind = "bytes", !.val = v]
RetPair(o, e) == [NoRet EXCEPT !.kind = "pair", !.pair = <<o, e>>]

\* CLITool.__init__ (lines 23-49) for every node; the caller is idle.
InitObjects ==
  /\ has_run = [n \in Nodes |-> FALSE]
  /\ process = [n \in Nodes |-> 0]
  /\ spawns = [n \in Nodes |-> 0]
  /\ returncode = [n \in Nodes |-> None]
  /\ thread = [n \in Nodes |-> "new"]
  /\ rpc = [n \in Nodes |-> "idle"]
  /\ pin = [n \in Nodes |-> None]
  /\ dpc = [n \in Nodes |-> [s \in Streams |-> "idle"]]
  /\ dlines = [n \in Nodes |-> [s \in Streams |-> << >>]]
  /\ dtmp = [n \in Nodes |-> [s \in Streams |-> << >>]]
  /\ _stdout = [n \in Nodes |-> None]
  /\ _stderr = [n \in Nodes |-> None]
  /\ _all = [n \in Nodes |-> None]
  /\ _stdout_buffer = [n \in Nodes |-> << >>]
  /\ _stderr_buffer = [n \in Nodes |-> << >>]
  /\ _all_buffer = [n \in Nodes |-> << >>]
  /\ _stdout_queue = [n \in Nodes |-> << >>]
  /\ _stderr_queue = [n \in Nodes |-> << >>]
  /\ _all_queue = [n \in Nodes |-> << >>]
  /\ alive = [n \in Nodes |-> "none"]
  /\ status = [n \in Nodes |-> 0]
  /\ sigterm = [n \in Nodes |-> FALSE]
  /\ pipe = [n \in Nodes |-> [s \in Streams |-> << >>]]
  /\ closed = [n \in Nodes |-> [s \in Streams |-> FALSE]]
  /\ nwritten = [n \in Nodes |-> [s \in Streams |-> 0]]
  /\ wrote = [n \in Nodes |-> [s \in Streams |-> << >>]]
  /\ stdin = [n \in Nodes |-> << >>]
  /\ stdin_writes = [n \in Nodes |-> 0]
  /\ stdin_closed = [n \in Nodes |-> FALSE]
  /\ mpc = "idle"
  /\ mop = "none"
  /\ mn = "A"
  /\ macc = "stdout"
  /\ mout = None
  /\ mlog = FALSE
  /\ mret = NoRet
  /\ merr = "none"
  /\ runs = [n \in Nodes |-> 0]
  /\ readLog = << >>
  /\ obsOut = -1
  /\ obsErr = -1

\* One node, no pipe source, in synchronous or background mode (__invert__).
InitNode ==
  /\ InitObjects
  /\ nodes = {"A"}
  /\ prog = [n \in Nodes |-> [out |-> MaxOut, err |-> MaxErr, codes |-> ExitCodes, filter |-> FALSE]]
  /\ concurrent \in [Nodes -> BOOLEAN]
  /\ concurrent["B"] = FALSE
  /\ pipe_in = [n \in Nodes |-> NoPipe]
  /\ pipe_in_type = [n \in Nodes |-> "OUT"]

\* The pipeline A | B, A @ B or A % B (lines 152-181): B's pipe source is A.
InitPipe ==
  /\ InitObjects
  /\ nodes = {"A", "B"}
  /\ prog = [n \in Nodes |-> IF n = "A"
                              THEN [out |-> MaxOut, err |-> 0, codes |-> {0}, filter |-> FALSE]
                              ELSE [out |-> 0, err |-> 0, codes |-> {0}, filter |-> FALSE]]
  /\ concurrent \in [Nodes -> BOOLEAN]
  /\ pipe_in = [n \in Nodes |-> IF n = "B" THEN FromNode("A") ELSE NoPipe]
  /\ pipe_in_type \in {[n \in Nodes |-> IF n = "B" THEN t ELSE "OUT"] :
                          t \in {"OUT", "ERR", "ALL"}}

\* ------------------------------------------------------------ OS process
\* subprocess.Popen(...) of line 58: a new process with three fresh pipes
\* becomes the node's handle.
Popen(n) ==
  /\ spawns' = [spawns EXCEPT ![n] = @ + 1]
  /\ process' = [process EXCEPT ![n] = spawns[n] + 1]
  /\ returncode' = [returncode EXCEPT ![n] = None]
  /\ stdin' = [stdin EXCEPT ![n] = << >>]
  /\ stdin_writes' = [stdin_writes EXCEPT ![n] = 0]
  /\ stdin_closed' = [stdin_closed EXCEPT ![n] = FALSE]
  /\ alive' = [alive EXCEPT ![n] = "running"]
  /\ status' = [status EXCEPT ![n] = 0]
  /\ sigterm' = [sigterm EXCEPT ![n] = FALSE]
  /\ pipe' = [pipe EXCEPT ![n] = [s \in Streams |-> << >>]]
  /\ closed' = [closed EXCEPT ![n] = [s \in Streams |-> FALSE]]
  /\ nwritten' = [nwritten EXCEPT ![n] = [s \in Streams |-> 0]]
  /\ wrote' = [wrote EXCEPT ![n] = [s \in Streams |-> << >>]]

\* The process writes its next chunk to stdout or stderr.
ProcWrite(n, s) ==
  /\ alive[n] = "running"
  /\ ~closed[n][s]
  /\ nwritten[n][s] < prog[n][s]
  /\ nwritten' = [nwritten EXCEPT ![n][s] = @ + 1]
  /\ pipe' = [pipe EXCEPT ![n][s] = @ \o Chunk(s, nwritten[n][s] + 1)]
  /\ wrote' = [wrote EXCEPT ![n][s] = @ \o Chunk(s, nwritten[n][s] + 1)]
  /\ UNCHANGED <<alive, status, sigterm, closed>>
  /\ UNCHANGED <<cfgVars, bufVars, finVars, queueVars, drainVars, popenVars,
                 runVars, mainVars>>

\* The process exits on its own; the OS closes its pipes.  A filter exits
\* only once it has read its stdin up to the end of input, which it sees
\* when the write end held by the program has been closed.
ProcExit(n) ==
  /\ alive[n] = "running"
  /\ ~sigterm[n]
  /\ prog[n].filter => stdin_closed[n]
  /\ \E c \in prog[n].codes : status' = [status EXCEPT ![n] = c]
  /\ alive' = [alive EXCEPT ![n] = "exited"]
  /\ closed' = [closed EXCEPT ![n] = [s \in Streams |-> TRUE]]
  /\ UNCHANGED <<sigterm, pipe, nwritten, wrote>>
  /\ UNCHANGED <<cfgVars, bufVars, finVars, queueVars, drainVars, popenVars,
                 runVars, mainVars>>

\* The process is terminated by the SIGTERM delivered to it.
ProcTerminate(n) ==
  /\ alive[n] = "running"
  /\ sigterm[n]
  /\ status' = [status EXCEPT ![n] = -SIGTERM]
  /\ alive' = [alive EXCEPT ![n] = "exited"]
  /\ sigterm' = [sigterm EXCEPT ![n] = FALSE]
  /\ closed' = [closed EXCEPT ![n] = [s \in Streams |-> TRUE]]
  /\ UNCHANGED <<pipe, nwritten, wrote>>
  /\ UNCHANGED <<cfgVars, bufVars, finVars, queueVars, drainVars, popenVars,
                 runVars, mainVars>>

\* Popen.poll(): None while the process runs; once it has exited, its
\* status, which poll() stores in Popen.returncode.
PollRunning(n) == alive[n] = "running"
PollCache(n) ==
  IF alive[n] = "exited" THEN [returncode EXCEPT ![n] = Some(status[n])]
  ELSE returncode

\* ---------------------------------------------------------------- drainers
StreamQueue(n, s) == IF s = "out" THEN _stdout_queue[n] ELSE _stderr_queue[n]
StreamBuffer(n, s) == IF s = "out" THEN _stdout_buffer[n] ELSE _stderr_buffer[n]

\* while self.process.poll() == None (lines 94 / 106)
DrainPoll(n, s) ==
  /\ dpc[n][s] = "poll"
  /\ returncode' = PollCache(n)
  /\ dpc' = [dpc EXCEPT ![n][s] = IF PollRunning(n) THEN "read" ELSE "done"]
  /\ UNCHANGED <<process, spawns, stdin, stdin_writes, stdin_closed, dlines, dtmp>>
  /\ UNCHANGED <<cfgVars, bufVars, finVars, queueVars, osVars, runVars, mainVars>>

\* self.process.stdout.readlines() (lines 96 / 108): blocks until end of
\* file, then returns every line that was in the pipe.
DrainRead(n, s) ==
  /\ dpc[n][s] = "read"
  /\ closed[n][s]
  /\ dlines' = [dlines EXCEPT ![n][s] = ReadLines(pipe[n][s])]
  /\ pipe' = [pipe EXCEPT ![n][s] = << >>]
  /\ dpc' = [dpc EXCEPT ![n][s] = IF pipe[n][s] = << >> THEN "poll" ELSE "push"]
  /\ UNCHANGED <<dtmp, alive, status, sigterm, closed, nwritten, wrote>>
  /\ UNCHANGED <<cfgVars, bufVars, finVars, queueVars, popenVars, runVars, mainVars>>

\* Lines 97-99 / 109-111 for one line `data`: put on the stream's queue,
\* append to the stream's buffer (this drainer is its only writer), put on
\* the combined queue.
DrainPush(n, s) ==
  /\ dpc[n][s] = "push"
  /\ LET data == Head(dlines[n][s]) IN
     /\ IF s = "out"
        THEN /\ _stdout_queue' = [_stdout_queue EXCEPT ![n] = Append(@, data)]
             /\ _stdout_buffer' = [_stdout_buffer EXCEPT ![n] = @ \o data]
             /\ UNCHANGED <<_stderr_queue, _stderr_buffer>>
        ELSE /\ _stderr_queue' = [_stderr_queue EXCEPT ![n] = Append(@, data)]
             /\ _stderr_buffer' = [_stderr_buffer EXCEPT ![n] = @ \o data]
             /\ UNCHANGED <<_stdout_queue, _stdout_buffer>>
     /\ _all_queue' = [_all_queue EXCEPT ![n] = Append(@, data)]
  /\ dpc' = [dpc EXCEPT ![n][s] = "load"]
  /\ UNCHANGED <<_all_buffer, dlines, dtmp>>
  /\ UNCHANGED <<cfgVars, finVars, osVars, popenVars, runVars, mainVars>>

\* self._all_buffer += data (lines 100 / 112) is a load of the attribute ...
DrainAllLoad(n, s) ==
  /\ dpc[n][s] = "load"
  /\ dtmp' = [dtmp EXCEPT ![n][s] = _all_buffer[n]]
  /\ dpc' = [dpc EXCEPT ![n][s] = "store"]
  /\ UNCHANGED dlines
  /\ UNCHANGED <<cfgVars, bufVars, finVars, queueVars, osVars, popenVars,
                 runVars, mainVars>>

\* ... followed by a store of the extended value; then the next line, or
\* back to the liveness check.
DrainAllStore(n, s) ==
  /\ dpc[n][s] = "store"
  /\ _all_buffer' = [_all_buffer EXCEPT ![n] = dtmp[n][s] \o Head(dlines[n][s])]
  /\ dlines' = [dlines EXCEPT ![n][s] = Tail(@)]
  /\ dtmp' = [dtmp EXCEPT ![n][s] = << >>]
  /\ dpc' = [dpc EXCEPT ![n][s] = IF Tail(dlines[n][s]) = << >> THEN "poll" ELSE "push"]
  /\ UNCHANGED <<_stdout_buffer, _stderr_buffer>>
  /\ UNCHANGED <<cfgVars, finVars, queueVars, osVars, popenVars, runVars, mainVars>>

\* Thread.is_alive() of a drainer; `if t.is_alive(): t.join()` returns once
\* the drainer is not alive (never started, or finished).
DrainerAlive(n, s) == dpc[n][s] \notin {"idle", "done"}

\* ------------------------------------------------ finish() and accessors
Field(t, acc) ==
  IF acc = "stdout" THEN _stdout[t] ELSE IF acc = "stderr" THEN _stderr[t] ELSE _all[t]

\* The accessor that PipeType selects in _run (lines 69-74).
AccessorOf(pt) ==
  IF pt = "ERR" THEN "stderr" ELSE IF pt = "OUT" THEN "stdout" ELSE "all"

FinishPcs == {"fin_alive", "fin_jout", "fin_jerr", "fin_jthread"}

\* finish() on node t (lines 240-244) with _kill_stream_threads (119-123),
\* one position per check or join; a join that has to wait stays where it is.
FinishNext(pc, t) ==
  CASE pc = "fin_alive" -> IF thread[t] = "alive" THEN "fin_jout" ELSE "fin_ret"
    [] pc = "fin_jout" -> IF DrainerAlive(t, "out") THEN pc ELSE "fin_jerr"
    [] pc = "fin_jerr" -> IF DrainerAlive(t, "err") THEN pc ELSE "fin_jthread"
    [] pc = "fin_jthread" -> IF thread[t] = "alive" THEN pc ELSE "fin_ret"
    [] OTHER -> pc

\* ------------------------------------------------------- run() and _run()
Src(n) == pipe_in[n].node

\* Line 58.
RunPopen(n) ==
  /\ rpc[n] = "popen"
  /\ Popen(n)
  /\ rpc' = [rpc EXCEPT ![n] = "start_out"]
  /\ UNCHANGED <<has_run, thread, pin>>
  /\ UNCHANGED <<cfgVars, bufVars, finVars, queueVars, drainVars, mainVars>>

\* Lines 61-62: Thread.start() of a drainer that was never started.
RunStart(n, s) ==
  /\ rpc[n] = (IF s = "out" THEN "start_out" ELSE "start_err")
  /\ dpc[n][s] = "idle"
  /\ dpc' = [dpc EXCEPT ![n][s] = "poll"]
  /\ rpc' = [rpc EXCEPT ![n] = IF s = "out" THEN "start_err" ELSE "resolve"]
  /\ UNCHANGED <<dlines, dtmp, has_run, thread, pin>>
  /\ UNCHANGED <<cfgVars, bufVars, finVars, queueVars, osVars, popenVars, mainVars>>

RunResolveRerun(n) ==
  /\ rpc[n] = "resolve"
  /\ IF pipe_in[n].kind = "node"
     THEN /\ has_run' = [has_run EXCEPT ![Src(n)] = TRUE]
          /\ thread' = [thread EXCEPT ![Src(n)] =
                          IF concurrent[Src(n)] THEN "alive" ELSE @]
          /\ rpc' = [rpc EXCEPT ![n] = "src_wait", ![Src(n)] = "popen"]
          /\ UNCHANGED pin
     ELSE /\ pin' = [pin EXCEPT ![n] = IF pipe_in[n].kind = "bytes"
                                       THEN Some(pipe_in[n].bytes) ELSE None]
          /\ rpc' = [rpc EXCEPT ![n] = "write"]
          /\ UNCHANGED <<has_run, thread>>
  /\ UNCHANGED <<cfgVars, bufVars, finVars, queueVars, drainVars, osVars,
                 popenVars, mainVars>>

\* Lines 64-76 up to the choice of the input: a pipe source that has not
\* run is run (run() sets has_run, then starts the thread or enters _run);
\* one that has run is read through its accessor; anything else is taken
\* as it is.
RunResolve(n) ==
  /\ rpc[n] = "resolve"
  /\ IF pipe_in[n].kind = "node"
     THEN IF ~has_run[Src(n)]
          THEN /\ has_run' = [has_run EXCEPT ![Src(n)] = TRUE]
               /\ thread' = [thread EXCEPT ![Src(n)] =
                               IF concurrent[Src(n)] THEN "alive" ELSE @]
               /\ rpc' = [rpc EXCEPT ![n] = "src_wait", ![Src(n)] = "popen"]
               /\ UNCHANGED pin
          ELSE /\ rpc' = [rpc EXCEPT ![n] = "acc"]
               /\ UNCHANGED <<has_run, thread, pin>>
     ELSE /\ pin' = [pin EXCEPT ![n] = IF pipe_in[n].kind = "bytes"
                                       THEN Some(pipe_in[n].bytes) ELSE None]
          /\ rpc' = [rpc EXCEPT ![n] = "write"]
          /\ UNCHANGED <<has_run, thread>>
  /\ UNCHANGED <<cfgVars, bufVars, finVars, queueVars, drainVars, osVars,
                 popenVars, mainVars>>

\* self.pipe_in.run() returns (line 68): in background mode once the
\* source's process handle exists (line 133), otherwise when its _run and
\* finish have returned (lines 137-139).
RunSrcReturn(n) ==
  /\ rpc[n] = "src_wait"
  /\ IF concurrent[Src(n)] THEN process[Src(n)] # 0 ELSE rpc[Src(n)] = "done"
  /\ rpc' = [rpc EXCEPT ![n] = "acc"]
  /\ UNCHANGED <<has_run, thread, pin>>
  /\ UNCHANGED <<cfgVars, bufVars, finVars, queueVars, drainVars, osVars,
                 popenVars, mainVars>>

\* The accessor of the source (lines 249-268): its first test.
RunAcc(n) ==
  /\ rpc[n] = "acc"
  /\ LET f == Field(Src(n), AccessorOf(pipe_in_type[n])) IN
     IF f # None
     THEN /\ pin' = [pin EXCEPT ![n] = f]
          /\ rpc' = [rpc EXCEPT ![n] = "write"]
     ELSE /\ rpc' = [rpc EXCEPT ![n] = "fin_alive"]
          /\ UNCHANGED pin
  /\ UNCHANGED <<has_run, thread>>
  /\ UNCHANGED <<cfgVars, bufVars, finVars, queueVars, drainVars, osVars,
                 popenVars, mainVars>>

\* The thread that executes _run of node n: the node's own execution thread
\* in background mode; otherwise the thread of the node whose _run called
\* n.run() at line 68 and waits for it, or the caller's thread.
ThreadOf(n) ==
  IF concurrent[n] THEN n
  ELSE LET callers == {m \in nodes \ {n} :
                         pipe_in[m].kind = "node" /\ Src(m) = n /\ rpc[m] = "src_wait"}
       IN IF callers = {} THEN "main"
          ELSE LET m == CHOOSE k \in callers : TRUE
               IN IF concurrent[m] THEN m ELSE "main"

\* finish() on the source reaches self.thread.join() (line 244) on the very
\* thread it is to join: Thread.join raises RuntimeError, which ends that
\* thread with every _run it was executing.
RunJoinSelf(n) ==
  /\ rpc[n] = "fin_jthread"
  /\ thread[Src(n)] = "alive"
  /\ ThreadOf(n) = Src(n)
  /\ thread' = [thread EXCEPT ![Src(n)] = "dead"]
  /\ rpc' = [k \in Nodes |->
               IF k \in nodes /\ ThreadOf(k) = Src(n) /\ rpc[k] \notin {"idle", "done"}
               THEN "raised" ELSE rpc[k]]
  /\ UNCHANGED <<has_run, pin>>
  /\ UNCHANGED <<cfgVars, bufVars, finVars, queueVars, drainVars, osVars,
                 popenVars, mainVars>>

\* The accessor's finish() on the source.
RunSrcFinish(n) ==
  /\ rpc[n] \in FinishPcs
  /\ FinishNext(rpc[n], Src(n)) # rpc[n]
  /\ rpc' = [rpc EXCEPT ![n] = FinishNext(rpc[n], Src(n))]
  /\ UNCHANGED <<has_run, thread, pin>>
  /\ UNCHANGED <<cfgVars, bufVars, finVars, queueVars, drainVars, osVars,
                 popenVars, mainVars>>

\* The accessor returns the source's field after finish().
RunAccReturn(n) ==
  /\ rpc[n] = "fin_ret"
  /\ pin' = [pin EXCEPT ![n] = Field(Src(n), AccessorOf(pipe_in_type[n]))]
  /\ rpc' = [rpc EXCEPT ![n] = "write"]
  /\ UNCHANGED <<has_run, thread>>
  /\ UNCHANGED <<cfgVars, bufVars, finVars, queueVars, drainVars, osVars,
                 popenVars, mainVars>>

\* What line 79 hands to stdin.writelines.
StdinLines(b) == splitlines(b)

\* Lines 78-79.
RunWrite(n) ==
  /\ rpc[n] = "write"
  /\ IF pin[n] # None
     THEN /\ stdin' = [stdin EXCEPT ![n] = @ \o Concat(StdinLines(pin[n][1]))]
          /\ stdin_writes' = [stdin_writes EXCEPT ![n] = @ + 1]
     ELSE UNCHANGED <<stdin, stdin_writes>>
  /\ rpc' = [rpc EXCEPT ![n] = "join_out"]
  /\ UNCHANGED <<process, spawns, returncode, stdin_closed, has_run, thread, pin>>
  /\ UNCHANGED <<cfgVars, bufVars, finVars, queueVars, drainVars, osVars, mainVars>>

RunJoinNoWait(n, s) ==
  /\ rpc[n] = (IF s = "out" THEN "join_out" ELSE "join_err")
  /\ rpc' = [rpc EXCEPT ![n] = IF s = "out" THEN "join_err" ELSE "fin1"]
  /\ UNCHANGED <<has_run, thread, pin>>
  /\ UNCHANGED <<cfgVars, bufVars, finVars, queueVars, drainVars, osVars,
                 popenVars, mainVars>>

\* _kill_stream_threads (lines 119-123) called at line 82.
RunJoin(n, s) ==
  /\ rpc[n] = (IF s = "out" THEN "join_out" ELSE "join_err")
  /\ ~DrainerAlive(n, s)
  /\ rpc' = [rpc EXCEPT ![n] = IF s = "out" THEN "join_err" ELSE "fin1"]
  /\ UNCHANGED <<has_run, thread, pin>>
  /\ UNCHANGED <<cfgVars, bufVars, finVars, queueVars, drainVars, osVars,
                 popenVars, mainVars>>

\* `len(x) < len(buffer) if x != None else True` (lines 84 and 86).
Richer(x, buffer) == IF x # None THEN Len(x[1]) < Len(buffer) ELSE TRUE

\* Lines 84-85.
RunFinalizeStdout(n) ==
  /\ rpc[n] = "fin1"
  /\ _stdout' = [_stdout EXCEPT ![n] =
                   IF Richer(@, _stdout_buffer[n]) THEN Some(_stdout_buffer[n]) ELSE @]
  /\ rpc' = [rpc EXCEPT ![n] = "fin2"]
  /\ UNCHANGED <<_stderr, _all, has_run, thread, pin>>
  /\ UNCHANGED <<cfgVars, bufVars, queueVars, drainVars, osVars, popenVars, mainVars>>

\* Lines 86-87: the test reads _stderr, the assignment writes _stdout.
RunFinalizeStderr(n) ==
  /\ rpc[n] = "fin2"
  /\ _stdout' = [_stdout EXCEPT ![n] =
                   IF Richer(_stderr[n], _stderr_buffer[n])
                   THEN Some(_stdout_buffer[n]) ELSE @]
  /\ rpc' = [rpc EXCEPT ![n] = "fin3"]
  /\ UNCHANGED <<_stderr, _all, has_run, thread, pin>>
  /\ UNCHANGED <<cfgVars, bufVars, queueVars, drainVars, osVars, popenVars, mainVars>>

\* Lines 88-91: the combined buffer, and _run returns.  On the execution
\* thread that ends the thread; in run() it is followed by self.finish().
RunFinalizeAll(n) ==
  /\ rpc[n] = "fin3"
  /\ _all' = [_all EXCEPT ![n] = Some(_all_buffer[n])]
  /\ rpc' = [rpc EXCEPT ![n] = IF thread[n] = "alive" THEN "done" ELSE "finish"]
  /\ thread' = [thread EXCEPT ![n] = IF @ = "alive" THEN "dead" ELSE @]
  /\ UNCHANGED <<_stdout, _stderr, has_run, pin>>
  /\ UNCHANGED <<cfgVars, bufVars, queueVars, drainVars, osVars, popenVars, mainVars>>

\* Line 138: self.finish() of a synchronous run; the node's own thread was
\* never started, so is_alive() is false and finish returns.
RunOwnFinish(n) ==
  /\ rpc[n] = "finish"
  /\ thread[n] # "alive"
  /\ rpc' = [rpc EXCEPT ![n] = "done"]
  /\ UNCHANGED <<has_run, thread, pin>>
  /\ UNCHANGED <<cfgVars, bufVars, finVars, queueVars, drainVars, osVars,
                 popenVars, mainVars>>

\* ------------------------------------------------------ the caller: run()
\* The caller enters operation op on node n.
Call(op, n, acc) ==
  /\ mpc = "idle"
  /\ n \in nodes
  /\ mop' = op
  /\ mn' = n
  /\ macc' = acc
  /\ mout' = None
  /\ mret' = NoRet
  /\ merr' = "none"
  /\ obsOut' = -1
  /\ obsErr' = -1

\* The caller's operation returns v or raises e.
Return(v, e) ==
  /\ mpc' = "ret"
  /\ mret' = v
  /\ merr' = e

\* The caller drops the result of its last operation.
Forget ==
  /\ mpc = "ret"
  /\ mpc' = "idle"
  /\ mop' = "none"
  /\ mn' = "A"
  /\ macc' = "stdout"
  /\ mout' = None
  /\ mlog' = FALSE
  /\ mret' = NoRet
  /\ merr' = "none"
  /\ obsOut' = -1
  /\ obsErr' = -1
  /\ UNCHANGED <<runs, readLog>>
  /\ UNCHANGED <<cfgVars, bufVars, finVars, queueVars, drainVars, osVars,
                 popenVars, runVars>>

\* The caller calls run() of a node, and only while no other thread is
\* inside a synchronous run() of that node.
Run(n) ==
  /\ Call("run", n, macc)
  /\ runs[n] < MaxRuns
  /\ concurrent[n] \/ rpc[n] \in {"idle", "done"}
  /\ runs' = [runs EXCEPT ![n] = @ + 1]
  /\ mpc' = "run"
  /\ UNCHANGED <<mlog, readLog>>
  /\ UNCHANGED <<cfgVars, bufVars, finVars, queueVars, drainVars, osVars,
                 popenVars, runVars>>

\* The caller runs a node that it has not run before.
RunOnce(n) ==
  /\ runs[n] = 0
  /\ Run(n)

\* The caller's first run() call on any node.
RunFirst(n) ==
  /\ \A k \in Nodes : runs[k] = 0
  /\ Run(n)

\* run() (lines 128-139) up to the point where it waits or raises.
\*  - background mode: Thread.start() of the execution thread, which raises
\*    RuntimeError when the thread was started before;
\*  - synchronous mode, drainers never started: _run on the caller's thread;
\*  - synchronous mode, drainers started before: _run spawns again (line 58)
\*    and line 61 raises RuntimeError.
RunBody ==
  /\ mpc = "run"
  /\ has_run' = [has_run EXCEPT ![mn] = TRUE]
  /\ IF concurrent[mn]
     THEN /\ IF thread[mn] = "new"
             THEN /\ thread' = [thread EXCEPT ![mn] = "alive"]
                  /\ rpc' = [rpc EXCEPT ![mn] = "popen"]
                  /\ mpc' = "run_wait"
                  /\ UNCHANGED <<mret, merr>>
             ELSE /\ Return(NoRet, "RuntimeError")
                  /\ UNCHANGED <<thread, rpc>>
          /\ UNCHANGED <<osVars, popenVars>>
     ELSE IF dpc[mn]["out"] = "idle"
          THEN /\ rpc' = [rpc EXCEPT ![mn] = "popen"]
               /\ mpc' = "run_wait"
               /\ UNCHANGED <<mret, merr, thread, osVars, popenVars>>
          ELSE /\ Popen(mn)
               /\ Return(NoRet, "RuntimeError")
               /\ UNCHANGED <<thread, rpc>>
  /\ UNCHANGED <<pin, mop, mn, macc, mout, mlog, runs, readLog, obsOut, obsErr>>
  /\ UNCHANGED <<cfgVars, bufVars, finVars, queueVars, drainVars>>

RunReturnEarly ==
  /\ mpc = "run_wait"
  /\ Return(RetSelf, "none")
  /\ UNCHANGED <<mop, mn, macc, mout, mlog, runs, readLog, obsOut, obsErr>>
  /\ UNCHANGED <<cfgVars, bufVars, finVars, queueVars, drainVars, osVars,
                 popenVars, runVars>>

\* run() returns: in background mode when the busy wait of line 133 sees a
\* process handle, in synchronous mode after _run and finish.
RunReturn ==
  /\ mpc = "run_wait"
  /\ IF concurrent[mn] THEN process[mn] # 0 ELSE rpc[mn] = "done"
  /\ Return(RetSelf, "none")
  /\ UNCHANGED <<mop, mn, macc, mout, mlog, runs, readLog, obsOut, obsErr>>
  /\ UNCHANGED <<cfgVars, bufVars, finVars, queueVars, drainVars, osVars,
                 popenVars, runVars>>

\* ------------------------------------- the caller: finish() and accessors
\* FINISHED of the lifecycle: _run has returned and no thread of the node
\* is left.
Completed(n) ==
  /\ rpc[n] = "done"
  /\ thread[n] # "alive"
  /\ \A s \in Streams : ~DrainerAlive(n, s)

Finish(n) ==
  /\ Call("finish", n, macc)
  /\ mpc' = "fin_alive"
  /\ UNCHANGED <<mlog, runs, readLog>>
  /\ UNCHANGED <<cfgVars, bufVars, finVars, queueVars, drainVars, osVars,
                 popenVars, runVars>>

\* The caller reads stdout, stderr or all; reads of a completed node are
\* recorded.
Read(n, acc) ==
  /\ Call("read", n, acc)
  /\ Completed(n) => Len(readLog) < MaxReads
  /\ mlog' = Completed(n)
  /\ mpc' = "acc"
  /\ UNCHANGED <<runs, readLog>>
  /\ UNCHANGED <<cfgVars, bufVars, finVars, queueVars, drainVars, osVars,
                 popenVars, runVars>>

\* What an accessor returns (lines 252/254, 259/261, 266/268).
AccessorValue(n, acc) == Field(n, acc)

ReadReturnConsuming ==
  /\ Return(RetBytes(AccessorValue(mn, macc)), "none")
  /\ readLog' = IF mlog THEN Append(readLog, <<mn, macc, AccessorValue(mn, macc)>>)
                ELSE readLog
  /\ _stdout' = [_stdout EXCEPT ![mn] = IF macc = "stdout" THEN None ELSE @]
  /\ _stderr' = [_stderr EXCEPT ![mn] = IF macc = "stderr" THEN None ELSE @]
  /\ _all' = [_all EXCEPT ![mn] = IF macc = "all" THEN None ELSE @]
  /\ UNCHANGED <<mop, mn, macc, mout, mlog, runs, obsOut, obsErr>>
  /\ UNCHANGED <<cfgVars, bufVars, queueVars, drainVars, osVars, popenVars, runVars>>

ReadReturn ==
  /\ Return(RetBytes(AccessorValue(mn, macc)), "none")
  /\ readLog' = IF mlog THEN Append(readLog, <<mn, macc, AccessorValue(mn, macc)>>)
                ELSE readLog
  /\ UNCHANGED <<mop, mn, macc, mout, mlog, runs, obsOut, obsErr>>
  /\ UNCHANGED <<cfgVars, bufVars, finVars, queueVars, drainVars, osVars,
                 popenVars, runVars>>

\* An accessor's first test (lines 251, 258, 265).
ReadCached ==
  /\ mpc = "acc"
  /\ Field(mn, macc) # None
  /\ ReadReturn

ReadUncached ==
  /\ mpc = "acc"
  /\ Field(mn, macc) = None
  /\ mpc' = "fin_alive"
  /\ UNCHANGED <<mop, mn, macc, mout, mlog, mret, merr, runs, readLog, obsOut, obsErr>>
  /\ UNCHANGED <<cfgVars, bufVars, finVars, queueVars, drainVars, osVars,
                 popenVars, runVars>>

\* finish() by the caller (lines 240-244), its own call or an accessor's.
FinishStep ==
  /\ mpc \in FinishPcs
  /\ FinishNext(mpc, mn) \notin {mpc, "fin_ret"}
  /\ mpc' = FinishNext(mpc, mn)
  /\ UNCHANGED <<mop, mn, macc, mout, mlog, mret, merr, runs, readLog, obsOut, obsErr>>
  /\ UNCHANGED <<cfgVars, bufVars, finVars, queueVars, drainVars, osVars,
                 popenVars, runVars>>

FinishReturn ==
  /\ mpc \in FinishPcs
  /\ FinishNext(mpc, mn) = "fin_ret"
  /\ IF mop = "read"
     THEN ReadReturn
     ELSE /\ Return(NoRet, "none")
          /\ UNCHANGED <<mop, mn, macc, mout, mlog, runs, readLog, obsOut, obsErr>>
          /\ UNCHANGED <<cfgVars, bufVars, finVars, queueVars, drainVars, osVars,
                         popenVars, runVars>>

\* ---------------------------------------------------------- the caller: kill()
\* The pid property (lines 234-238): the handle's pid, or None.
pid(n) == IF process[n] # 0 THEN Some(process[n]) ELSE None

\* The running property (lines 216-219); its poll() stores the status.
Running(n) == IF process[n] # 0 THEN PollRunning(n) ELSE FALSE

Kill(n) ==
  /\ Call("kill", n, macc)
  /\ mpc' = "kill_check"
  /\ UNCHANGED <<mlog, runs, readLog>>
  /\ UNCHANGED <<cfgVars, bufVars, finVars, queueVars, drainVars, osVars,
                 popenVars, runVars>>

\* The return_code property (lines 227-232): the running test polls, which
\* stores the status of an exited process in Popen.returncode.
return_code_unpolled(n) == returncode[n]
return_code(n) ==
  IF ~Running(n) /\ process[n] # 0 THEN PollCache(n)[n] ELSE None

\* The test of line 185.
KillTestHandle(n) == process[n] # 0
KillTest(n) == Running(n)

\* Lines 185-188: `if self.running`, else raise RuntimeError.
KillCheck ==
  /\ mpc = "kill_check"
  /\ returncode' = IF process[mn] # 0 THEN PollCache(mn) ELSE returncode
  /\ IF KillTest(mn)
     THEN /\ mpc' = "kill_signal"
          /\ UNCHANGED <<mret, merr>>
     ELSE Return(NoRet, "RuntimeError")
  /\ UNCHANGED <<process, spawns, stdin, stdin_writes, stdin_closed>>
  /\ UNCHANGED <<mop, mn, macc, mout, mlog, runs, readLog, obsOut, obsErr>>
  /\ UNCHANGED <<cfgVars, bufVars, finVars, queueVars, drainVars, osVars, runVars>>

KillSignalProbe ==
  /\ mpc = "kill_signal"
  /\ IF alive[mn] = "exited" /\ returncode[mn] # None
     THEN Return(NoRet, "ProcessLookupError")
     ELSE Return(RetSelf, "none")
  /\ UNCHANGED <<mop, mn, macc, mout, mlog, runs, readLog, obsOut, obsErr>>
  /\ UNCHANGED <<cfgVars, bufVars, finVars, queueVars, drainVars, osVars,
                 popenVars, runVars>>

\* Line 186: os.kill(self.pid, signal.SIGTERM).  A process that exited in
\* between takes no signal: the call has no effect while it is not reaped,
\* and raises ProcessLookupError once a poll() has reaped it.
KillSignal ==
  /\ mpc = "kill_signal"
  /\ sigterm' = [sigterm EXCEPT ![mn] = IF alive[mn] = "running" THEN TRUE ELSE @]
  /\ IF alive[mn] = "exited" /\ returncode[mn] # None
     THEN Return(NoRet, "ProcessLookupError")
     ELSE Return(RetSelf, "none")
  /\ UNCHANGED <<alive, status, pipe, closed, nwritten, wrote>>
  /\ UNCHANGED <<mop, mn, macc, mout, mlog, runs, readLog, obsOut, obsErr>>
  /\ UNCHANGED <<cfgVars, bufVars, finVars, queueVars, drainVars, popenVars, runVars>>

\* ------------------------------------------------- the caller: iteration
\* Queue.empty()
Empty(q) == q = << >>

IterNext(n) ==
  /\ Call("next", n, macc)
  /\ mpc' = "next_out"
  /\ UNCHANGED <<mlog, runs, readLog>>
  /\ UNCHANGED <<cfgVars, bufVars, finVars, queueVars, drainVars, osVars,
                 popenVars, runVars>>

\* __next__ (line 197), left operand of `and`.
NextTestOut ==
  /\ mpc = "next_out"
  /\ obsOut' = Len(_stdout_queue[mn])
  /\ mpc' = IF Empty(_stdout_queue[mn]) THEN "next_err" ELSE "nsl_out"
  /\ UNCHANGED <<mop, mn, macc, mout, mlog, mret, merr, runs, readLog, obsErr>>
  /\ UNCHANGED <<cfgVars, bufVars, finVars, queueVars, drainVars, osVars,
                 popenVars, runVars>>

\* Whether __next__ raises StopIteration, given its left operand was true.
NextStopsOr(q) == TRUE
NextStops(q) == Empty(q)

\* __next__ (lines 197-198), right operand of `and`, and the raise.
NextTestErr ==
  /\ mpc = "next_err"
  /\ obsErr' = Len(_stderr_queue[mn])
  /\ IF NextStops(_stderr_queue[mn])
     THEN Return(NoRet, "StopIteration")
     ELSE /\ mpc' = "nsl_out"
          /\ UNCHANGED <<mret, merr>>
  /\ UNCHANGED <<mop, mn, macc, mout, mlog, runs, readLog, obsOut>>
  /\ UNCHANGED <<cfgVars, bufVars, finVars, queueVars, drainVars, osVars,
                 popenVars, runVars>>

NextStreamLine(n) ==
  /\ Call("next_stream_line", n, macc)
  /\ mpc' = "nsl_out"
  /\ UNCHANGED <<mlog, runs, readLog>>
  /\ UNCHANGED <<cfgVars, bufVars, finVars, queueVars, drainVars, osVars,
                 popenVars, runVars>>

\* The test of lines 206 and 210.
HasItem(q) == ~Empty(q)

\* Line 206.
NslTestOut ==
  /\ mpc = "nsl_out"
  /\ mpc' = IF HasItem(_stdout_queue[mn]) THEN "nsl_get_out" ELSE "nsl_err"
  /\ UNCHANGED <<mop, mn, macc, mout, mlog, mret, merr, runs, readLog, obsOut, obsErr>>
  /\ UNCHANGED <<cfgVars, bufVars, finVars, queueVars, drainVars, osVars,
                 popenVars, runVars>>

\* Line 207: Queue.get(True) blocks while the queue is empty.
NslGetOut ==
  /\ mpc = "nsl_get_out"
  /\ _stdout_queue[mn] # << >>
  /\ mout' = Some(Head(_stdout_queue[mn]))
  /\ _stdout_queue' = [_stdout_queue EXCEPT ![mn] = Tail(@)]
  /\ mpc' = "nsl_err"
  /\ UNCHANGED <<_stderr_queue, _all_queue>>
  /\ UNCHANGED <<mop, mn, macc, mlog, mret, merr, runs, readLog, obsOut, obsErr>>
  /\ UNCHANGED <<cfgVars, bufVars, finVars, drainVars, osVars, popenVars, runVars>>

\* Lines 210 and 214.
NslTestErr ==
  /\ mpc = "nsl_err"
  /\ IF HasItem(_stderr_queue[mn])
     THEN /\ mpc' = "nsl_get_err"
          /\ UNCHANGED <<mret, merr>>
     ELSE Return(RetPair(mout, None), "none")
  /\ UNCHANGED <<mop, mn, macc, mout, mlog, runs, readLog, obsOut, obsErr>>
  /\ UNCHANGED <<cfgVars, bufVars, finVars, queueVars, drainVars, osVars,
                 popenVars, runVars>>

\* Lines 211 and 214.
NslGetErr ==
  /\ mpc = "nsl_get_err"
  /\ _stderr_queue[mn] # << >>
  /\ _stderr_queue' = [_stderr_queue EXCEPT ![mn] = Tail(@)]
  /\ Return(RetPair(mout, Some(Head(_stderr_queue[mn]))), "none")
  /\ UNCHANGED <<_stdout_queue, _all_queue>>
  /\ UNCHANGED <<mop, mn, macc, mout, mlog, runs, readLog, obsOut, obsErr>>
  /\ UNCHANGED <<cfgVars, bufVars, finVars, drainVars, osVars, popenVars, runVars>>

\* -------------------------------------------- the caller: consumer loop
\* The stream_empty property (lines 221-225), one queue at a time.
stream_empty(n) == Empty(_stdout_queue[n]) /\ Empty(_stderr_queue[n])

\* The caller enters the loop of lines 288-296 on node n:
\* while process.running or not process.stream_empty: next_stream_line().
Loop(n) ==
  /\ Call("loop", n, macc)
  /\ mpc' = "loop_running"
  /\ UNCHANGED <<mlog, runs, readLog>>
  /\ UNCHANGED <<cfgVars, bufVars, finVars, queueVars, drainVars, osVars,
                 popenVars, runVars>>

\* Line 288, left operand of `or`: process.running (its poll stores the
\* status); true enters the body.
LoopTestRunning ==
  /\ mop = "loop"
  /\ mpc = "loop_running"
  /\ returncode' = IF process[mn] # 0 THEN PollCache(mn) ELSE returncode
  /\ mpc' = IF Running(mn) THEN "nsl_out" ELSE "loop_empty_out"
  /\ UNCHANGED <<process, spawns, stdin, stdin_writes, stdin_closed>>
  /\ UNCHANGED <<mop, mn, macc, mout, mlog, mret, merr, runs, readLog, obsOut, obsErr>>
  /\ UNCHANGED <<cfgVars, bufVars, finVars, queueVars, drainVars, osVars, runVars>>

\* Line 288, right operand: stream_empty tests the stdout queue first.
LoopTestEmptyOut ==
  /\ mop = "loop"
  /\ mpc = "loop_empty_out"
  /\ mpc' = IF Empty(_stdout_queue[mn]) THEN "loop_empty_err" ELSE "nsl_out"
  /\ UNCHANGED <<mop, mn, macc, mout, mlog, mret, merr, runs, readLog, obsOut, obsErr>>
  /\ UNCHANGED <<cfgVars, bufVars, finVars, queueVars, drainVars, osVars,
                 popenVars, runVars>>

\* Whether the loop exits, given running was false and the stdout queue
\* was empty.
LoopExits(q) == Empty(q)

\* stream_empty tests the stderr queue; the loop exits when it is empty too.
LoopTestEmptyErr ==
  /\ mop = "loop"
  /\ mpc = "loop_empty_err"
  /\ IF LoopExits(_stderr_queue[mn])
     THEN Return(NoRet, "none")
     ELSE /\ mpc' = "nsl_out"
          /\ UNCHANGED <<mret, merr>>
  /\ UNCHANGED <<mop, mn, macc, mout, mlog, runs, readLog, obsOut, obsErr>>
  /\ UNCHANGED <<cfgVars, bufVars, finVars, queueVars, drainVars, osVars,
                 popenVars, runVars>>

\* next_stream_line has returned its pair (line 289); back to line 288.
LoopAgain ==
  /\ mop = "loop"
  /\ mpc = "ret"
  /\ mret.kind = "pair"
  /\ mpc' = "loop_running"
  /\ mout' = None
  /\ mret' = NoRet
  /\ UNCHANGED <<mop, mn, macc, mlog, merr, runs, readLog, obsOut, obsErr>>
  /\ UNCHANGED <<cfgVars, bufVars, finVars, queueVars, drainVars, osVars,
                 popenVars, runVars>>

\* ------------------------------------------------ the caller: composition
\* A right-hand operand that is not a CLITool.
NonNode == "int"
Operands == Nodes \cup {NonNode}

\* isinstance(other, CLITool) (lines 154, 167, 176).
IsAnything(x) == TRUE
IsCLITool(x) == x \in Nodes

\* The composition returns its right-hand node.
RetNode(b) == [NoRet EXCEPT !.kind = "node", !.val = Some(<<b>>)]

\* The caller enters operation op on node n, which returns v or raises e
\* without the caller taking a step in between.
CallReturn(op, n, acc, v, e) ==
  /\ mpc = "idle"
  /\ n \in nodes
  /\ mop' = op
  /\ mn' = n
  /\ macc' = acc
  /\ mout' = None
  /\ obsOut' = -1
  /\ obsErr' = -1
  /\ Return(v, e)

\* The selector an operation assigns to its right-hand node: __matmul__
\* (line 169) and __mod__ (line 178) assign one, __or__ (lines 154-156)
\* assigns none.
Selector(op, old) == IF op = "matmul" THEN "ERR" ELSE IF op = "mod" THEN "ALL" ELSE old

\* a | other, a @ other, a % other (lines 152-181); macc records `other`.
Compose(op, a, other) ==
  /\ IF IsCLITool(other)
     THEN /\ pipe_in' = [pipe_in EXCEPT ![other] = FromNode(a)]
          /\ pipe_in_type' = [pipe_in_type EXCEPT ![other] = Selector(op, @)]
          /\ CallReturn(op, a, other, RetNode(other), "none")
     ELSE /\ CallReturn(op, a, other, NoRet, "TypeError")
          /\ UNCHANGED <<pipe_in, pipe_in_type>>
  /\ UNCHANGED <<nodes, prog, concurrent, mlog, runs, readLog>>
  /\ UNCHANGED <<bufVars, finVars, queueVars, drainVars, osVars, popenVars, runVars>>

\* What a python value piped into a node becomes: str(other).encode().
Encoded == <<"x">>
BytesIn(b) == [kind |-> "bytes", node |-> "A", bytes |-> b]

\* other | b for a python value `other` (__ror__, lines 160-163).
Ror(b) ==
  /\ CallReturn("ror", b, macc, RetSelf, "none")
  /\ pipe_in' = [pipe_in EXCEPT ![b] = BytesIn(Encoded)]
  /\ UNCHANGED <<nodes, prog, concurrent, pipe_in_type, mlog, runs, readLog>>
  /\ UNCHANGED <<bufVars, finVars, queueVars, drainVars, osVars, popenVars, runVars>>

\* ~a (__invert__, lines 147-150).
Invert(a) ==
  /\ CallReturn("invert", a, macc, RetSelf, "none")
  /\ concurrent' = [concurrent EXCEPT ![a] = TRUE]
  /\ UNCHANGED <<nodes, prog, pipe_in, pipe_in_type, mlog, runs, readLog>>
  /\ UNCHANGED <<bufVars, finVars, queueVars, drainVars, osVars, popenVars, runVars>>

\* --------------------------------------------------------- specifications
\* The steps of the drainer threads and of run()/_run() of every node.
Threads ==
  \/ \E n \in nodes, s \in Streams : DrainPoll(n, s)
  \/ \E n \in nodes, s \in Streams : DrainRead(n, s)
  \/ \E n \in nodes, s \in Streams : DrainPush(n, s)
  \/ \E n \in nodes, s \in Streams : DrainAllLoad(n, s)
  \/ \E n \in nodes, s \in Streams : DrainAllStore(n, s)
  \/ \E n \in nodes : RunPopen(n)
  \/ \E n \in nodes, s \in Streams : RunStart(n, s)
  \/ \E n \in nodes : RunResolve(n)
  \/ \E n \in nodes : RunWrite(n)
  \/ \E n \in nodes, s \in Streams : RunJoin(n, s)
  \/ \E n \in nodes : RunFinalizeStdout(n)
  \/ \E n \in nodes : RunFinalizeStderr(n)
  \/ \E n \in nodes : RunFinalizeAll(n)
  \/ \E n \in nodes : RunOwnFinish(n)

\* The threads and the process of every node.
Engine ==
  \/ \E n \in nodes, s \in Streams : ProcWrite(n, s)
  \/ \E n \in nodes : ProcExit(n)
  \/ Threads

\* The caller's run().
CallerRun ==
  \/ Forget
  \/ \E n \in nodes : Run(n)
  \/ RunBody
  \/ RunReturn

\* The caller's finish().
CallerFinish ==
  \/ \E n \in nodes : Finish(n)
  \/ FinishStep
  \/ FinishReturn

\* The caller's accessor reads.
CallerRead ==
  \/ \E n \in nodes, acc \in Accessors : Read(n, acc)
  \/ ReadCached
  \/ ReadUncached

\* The caller's kill(), and the process acting on the signal.
CallerKill ==
  \/ \E n \in nodes : Kill(n)
  \/ KillCheck
  \/ KillSignal
  \/ \E n \in nodes : ProcTerminate(n)

\* The caller's iteration steps.
CallerIter ==
  \/ \E n \in nodes : IterNext(n)
  \/ NextTestOut
  \/ NextTestErr
  \/ \E n \in nodes : NextStreamLine(n)
  \/ NslTestOut
  \/ NslGetOut
  \/ NslTestErr
  \/ NslGetErr

\* A single node with no pipe source; the caller runs it, finishes it and
\* reads its buffers.
NextNode == Engine \/ CallerRun \/ CallerFinish \/ CallerRead
SpecNode == InitNode /\ [][NextNode]_vars

\* A single node; the caller runs it, kills it and finishes it.
NextKill == Engine \/ CallerRun \/ CallerKill \/ CallerFinish
SpecKill == InitNode /\ [][NextKill]_vars

\* A single node that the caller runs once, kills and finishes, where
\* every started thread keeps being scheduled, the OS acts
\* on a delivered signal, and a caller inside finish() goes on.  A process
\* need not ever exit or write on its own.
NextKillOnce ==
  \/ Engine
  \/ Forget
  \/ \E n \in nodes : RunOnce(n)
  \/ RunBody
  \/ RunReturn
  \/ CallerKill
  \/ CallerFinish

FairKill ==
  /\ InitNode
  /\ [][NextKillOnce]_vars
  /\ WF_vars(Threads)
  /\ WF_vars(\E n \in nodes : ProcTerminate(n))
  /\ WF_vars(FinishStep \/ FinishReturn)

\* A single node; the caller runs it and iterates over its output.
NextIter == Engine \/ CallerRun \/ CallerIter
SpecIter == InitNode /\ [][NextIter]_vars

\* The steps of _run that resolve a pipe source.
Resolve ==
  \/ \E n \in nodes : RunSrcReturn(n)
  \/ \E n \in nodes : RunAcc(n)
  \/ \E n \in nodes : RunSrcFinish(n)
  \/ \E n \in nodes : RunAccReturn(n)

\* The two-node pipeline; the caller runs its nodes.
NextPipe ==
  \/ Engine
  \/ Resolve
  \/ Forget
  \/ \E n \in nodes : RunOnce(n)
  \/ RunBody
  \/ RunReturn
SpecPipe == InitPipe /\ [][NextPipe]_vars

\* The pipeline of two nodes; the caller runs each node at most once and
\* calls finish() on either node at any time.
NextPipeFinish ==
  \/ Engine
  \/ Resolve
  \/ Forget
  \/ \E n \in nodes : RunOnce(n)
  \/ RunBody
  \/ RunReturn
  \/ CallerFinish
SpecPipeFinish == InitPipe /\ [][NextPipeFinish]_vars

\* The pipeline A | B (stdout pipe) where A's process exits on its own and
\* B's process is a filter; B is synchronous.
InitFilter ==
  /\ InitObjects
  /\ nodes = {"A", "B"}
  /\ prog = [n \in Nodes |-> IF n = "A"
                              THEN [out |-> MaxOut, err |-> 0, codes |-> {0}, filter |-> FALSE]
                              ELSE [out |-> 0, err |-> 0, codes |-> {0}, filter |-> TRUE]]
  /\ concurrent \in [Nodes -> BOOLEAN]
  /\ concurrent["B"] = FALSE
  /\ pipe_in = [n \in Nodes |-> IF n = "B" THEN FromNode("A") ELSE NoPipe]
  /\ pipe_in_type = [n \in Nodes |-> "OUT"]

\* The same pipeline where no process, thread or caller that can take a
\* step stops for ever.
FairFilter == InitFilter /\ [][NextPipe]_vars /\ WF_vars(NextPipe)

\* A self-referential chain (A piped into A) or a circular one (A piped
\* into B and B piped into A), each node in either mode.
InitCycle ==
  /\ InitObjects
  /\ nodes \in {{"A"}, {"A", "B"}}
  /\ prog = [n \in Nodes |-> IF n = "A"
                              THEN [out |-> MaxOut, err |-> 0, codes |-> {0}, filter |-> FALSE]
                              ELSE [out |-> 0, err |-> 0, codes |-> {0}, filter |-> FALSE]]
  /\ concurrent \in [Nodes -> BOOLEAN]
  /\ "B" \notin nodes => ~concurrent["B"]
  /\ pipe_in = [n \in Nodes |->
                  IF n \notin nodes THEN NoPipe
                  ELSE IF nodes = {"A"} THEN FromNode("A")
                  ELSE FromNode(CHOOSE k \in nodes : k # n)]
  /\ pipe_in_type = [n \in Nodes |-> "OUT"]

\* The caller runs one node of the chain; every thread and process that
\* can take a step goes on.
NextCycle ==
  \/ Engine
  \/ Resolve
  \/ \E n \in nodes : RunJoinSelf(n)
  \/ \E n \in nodes : RunFirst(n)
  \/ RunBody
  \/ RunReturn
FairCycle == InitCycle /\ [][NextCycle]_vars /\ WF_vars(NextCycle)

\* A single node; the caller runs it once and consumes its output with
\* the loop of lines 288-296.
NextLoop ==
  \/ Engine
  \/ Forget
  \/ \E n \in nodes : RunOnce(n)
  \/ RunBody
  \/ RunReturn
  \/ \E n \in nodes : Loop(n)
  \/ LoopTestRunning
  \/ LoopTestEmptyOut
  \/ LoopTestEmptyErr
  \/ LoopAgain
  \/ NslTestOut
  \/ NslGetOut
  \/ NslTestErr
  \/ NslGetErr
SpecLoop == InitNode /\ [][NextLoop]_vars

\* Two nodes as constructed (lines 23-49), composed by the caller in any
\* order; nothing is run.
InitCompose ==
  /\ InitObjects
  /\ nodes = Nodes
  /\ prog = [n \in Nodes |-> [out |-> 0, err |-> 0, codes |-> {0}, filter |-> FALSE]]
  /\ concurrent = [n \in Nodes |-> FALSE]
  /\ pipe_in = [n \in Nodes |-> NoPipe]
  /\ pipe_in_type = [n \in Nodes |-> "OUT"]

ComposeOps == {"or", "matmul", "mod"}

NextCompose ==
  \/ Forget
  \/ \E op \in ComposeOps, a \in nodes, other \in Operands : Compose(op, a, other)
  \/ \E b \in nodes : Ror(b)
  \/ \E a \in nodes : Invert(a)
SpecCompose == InitCompose /\ [][NextCompose]_vars

\* ------------------------------------------------------------------ claims
IsPrefix(a, b) == Len(a) <= Len(b) /\ SubSeq(b, 1, Len(a)) = a

\* x is the concatenation of the lines of ls1 and ls2, merged in some order
\* that keeps the order of each.
RECURSIVE IsMerge(_, _, _)
IsMerge(x, ls1, ls2) ==
  IF ls1 = << >> /\ ls2 = << >> THEN x = << >>
  ELSE \/ /\ ls1 # << >>
          /\ IsPrefix(Head(ls1), x)
          /\ IsMerge(SubSeq(x, Len(Head(ls1)) + 1, Len(x)), Tail(ls1), ls2)
       \/ /\ ls2 # << >>
          /\ IsPrefix(Head(ls2), x)
          /\ IsMerge(SubSeq(x, Len(Head(ls2)) + 1, Len(x)), ls1, Tail(ls2))

\* A synchronous run() of a node without pipe source has returned, and the
\* node was spawned once.
SyncRunReturned(n) ==
  /\ ~concurrent[n]
  /\ pipe_in[n].kind = "none"
  /\ rpc[n] = "done"
  /\ spawns[n] = 1

\* C1: once a synchronous run() of a node without pipe source has returned,
\* `all` holds every line the process wrote to stdout and to stderr (each
\* stream in its order) and `stdout` is exactly what the process wrote to
\* stdout, whatever the interleaving of the process's exit with the drainers.
C1_SyncRunCapturesAll ==
  \A n \in nodes :
    SyncRunReturned(n) =>
      /\ AccessorValue(n, "stdout") = Some(wrote[n]["out"])
      /\ AccessorValue(n, "all") # None
      /\ IsMerge(AccessorValue(n, "all")[1], ReadLines(wrote[n]["out"]),
                 ReadLines(wrote[n]["err"]))

\* C2: after a node has finished, the stderr accessor returns exactly the
\* bytes the stderr drainer accumulated and the stdout accessor exactly the
\* bytes the stdout drainer accumulated.
C2_FinalizePerStream ==
  \A n \in nodes :
    (Completed(n) /\ spawns[n] >= 1) =>
      /\ AccessorValue(n, "stderr") = Some(_stderr_buffer[n])
      /\ AccessorValue(n, "stdout") = Some(_stdout_buffer[n])

\* C3: a node spawns at most one process, and a second run() neither spawns
\* nor fails.
C3_AtMostOneSpawn ==
  /\ \A n \in nodes : spawns[n] <= 1
  /\ (mop = "run" /\ mpc = "ret" /\ runs[mn] >= 2) => merr = "none"

\* C4: in the pipeline A | B, the bytes written to the stdin of B's process
\* are exactly A's finalized stdout bytes.
C4_StdinEqualsUpstreamStdout ==
  \A n \in nodes :
    (pipe_in[n].kind = "node" /\ pipe_in_type[n] = "OUT" /\ stdin_writes[n] > 0) =>
      /\ _stdout[Src(n)] # None
      /\ stdin[n] = _stdout[Src(n)][1]

\* Finalize (lines 84-88) of node n has completed.
Finalized(n) == _stdout[n] # None /\ _all[n] # None

\* C5: the write to the stdin of a node with a pipe source happens only
\* after the source's process has exited, both of its drainers have
\* terminated and its buffers are finalized.
C5_WriteAfterUpstreamFinalize ==
  [][\A n \in nodes :
       (pipe_in[n].kind = "node" /\ stdin_writes'[n] > stdin_writes[n]) =>
         /\ alive[Src(n)] = "exited"
         /\ \A s \in Streams : ~DrainerAlive(Src(n), s)
         /\ Finalized(Src(n))]_vars

\* The state of node n, apart from what Popen caches of the exit status.
NodeState(n) ==
  <<process[n], spawns[n], has_run[n], concurrent[n], pipe_in[n], pipe_in_type[n],
    thread[n], rpc[n], dpc[n], dlines[n], _stdout[n], _stderr[n], _all[n],
    _stdout_buffer[n], _stderr_buffer[n], _all_buffer[n],
    _stdout_queue[n], _stderr_queue[n], _all_queue[n],
    alive[n], status[n], sigterm[n], stdin[n]>>

\* The caller's kill() takes its test of line 185 on a node that is not
\* running.
KillOnNotRunning == mpc = "kill_check" /\ mpc' # "kill_check" /\ ~Running(mn)

\* C6: kill() on a node that is not running raises the no-such-process
\* error (RuntimeError) without reaching os.kill, delivers no signal and
\* leaves the node's state unchanged.
C6_KillNotRunningFails ==
  [][KillOnNotRunning =>
       /\ mpc' = "ret"
       /\ merr' = "RuntimeError"
       /\ NodeState(mn)' = NodeState(mn)]_vars

C6_Witness ==
  mop = "kill" /\ mpc = "ret" /\ merr = "RuntimeError" /\ alive[mn] = "exited"

\* kill() on node n passed its test and returned from os.kill.
KillSent(n) == mop = "kill" /\ mn = n /\ mpc = "ret" /\ merr = "none"

\* The process of node n is not running and no thread of the node is left.
Stopped(n) ==
  /\ ~Running(n)
  /\ \A s \in Streams : ~DrainerAlive(n, s)
  /\ thread[n] # "alive"

\* C7: on a node that is run once, kill() on the running node leads to
\* running being false and to both drainers (and the execution thread)
\* having terminated on their own, and a finish() on a node whose process
\* has exited returns.
C7_KillStopsNode ==
  /\ \A n \in Nodes : KillSent(n) ~> Stopped(n)
  /\ (mop = "finish" /\ mpc \in FinishPcs /\ alive[mn] = "exited") ~> (mpc = "ret")

\* finish() returned on a background node that was killed while its
\* drainers were blocked in readlines().
C7_Witness ==
  /\ mop = "finish"
  /\ mpc = "ret"
  /\ concurrent[mn]
  /\ status[mn] = -SIGTERM
  /\ Stopped(mn)
  /\ _all[mn] # None

\* C8: return_code is absent whenever the node is running or has never
\* spawned a process, and is the exit status of the node's process once
\* that has exited.
C8_ReturnCode ==
  \A n \in nodes :
    /\ (Running(n) \/ spawns[n] = 0) => return_code(n) = None
    /\ alive[n] = "exited" => return_code(n) = Some(status[n])

C8_Witness ==
  \E n \in nodes :
    alive[n] = "exited" /\ returncode[n] = None /\ return_code(n) = Some(-SIGTERM)

\* Reads of the same accessor of the same completed node returned the same
\* value.
ReadsAgree ==
  \A i, j \in DOMAIN readLog :
    (readLog[i][1] = readLog[j][1] /\ readLog[i][2] = readLog[j][2]) =>
      readLog[i][3] = readLog[j][3]

\* A step of the caller inside an accessor read or finish().
CallerReadStep ==
  mop \in {"read", "finish"} /\ mpc \in {"acc"} \cup FinishPcs /\ mpc' # mpc

\* C9: once a node has completed, reads of stdout, stderr and all, in any
\* order and interleaved with finish(), return the same value for the same
\* accessor every time, and no step of a read or finish() changes the
\* node's state.
C9_ReadIdempotent ==
  [][/\ ReadsAgree'
     /\ (CallerReadStep /\ Completed(mn)) =>
          (NodeState(mn)' = NodeState(mn) /\ returncode'[mn] = returncode[mn])]_vars

C9_Witness ==
  \E i, j \in DOMAIN readLog :
    /\ i < j
    /\ readLog[i][1] = readLog[j][1]
    /\ readLog[i][2] = "stdout"
    /\ readLog[j][2] = "stdout"
    /\ readLog[i][3] = Some(<<"a", LF>>)

\* C10: a step of the iteration (__next__) reports the end only if each of
\* the two queues was empty when the step tested it, otherwise returns a
\* pair with at least one side present, and never waits in Queue.get.
C10_IterationStep ==
  /\ (mop = "next" /\ mpc = "ret" /\ merr = "StopIteration") =>
       (obsOut = 0 /\ obsErr = 0)
  /\ (mop = "next" /\ mpc = "ret" /\ merr # "StopIteration") =>
       (mret.kind = "pair" /\ mret.pair # <<None, None>>)
  /\ (mop = "next" /\ mpc = "nsl_get_out") => _stdout_queue[mn] # << >>
  /\ (mop = "next" /\ mpc = "nsl_get_err") => _stderr_queue[mn] # << >>

\* A step returned only a stderr line while the stdout drainer still had a
\* line to push.
C10_Witness ==
  /\ mop = "next"
  /\ mpc = "ret"
  /\ mret.kind = "pair"
  /\ mret.pair[1] = None
  /\ mret.pair[2] # None
  /\ dpc[mn]["out"] = "push"

\* The stream an operation is to select: stdout for the default pipe,
\* stderr for the stderr pipe, combined for the combined pipe.
StreamOf(op) == IF op = "or" THEN "OUT" ELSE IF op = "matmul" THEN "ERR" ELSE "ALL"

\* C11: when a node-to-node composition a op b has returned, b's pipe
\* source is a, b's selector is the stream of op (whatever was composed
\* onto b before), and b is what was returned.
C11_CompositionBinds ==
  (mop \in ComposeOps /\ mpc = "ret" /\ macc \in Nodes) =>
    /\ pipe_in[macc] = FromNode(mn)
    /\ pipe_in_type[macc] = StreamOf(mop)
    /\ mret = RetNode(macc)

\* A composition whose right-hand side is not a node takes its step.
InvalidCompose == mpc = "idle" /\ mop' \in ComposeOps /\ macc' \notin Nodes

\* C12: a composition whose right-hand side is not a command node raises
\* the invalid-composition error (TypeError) and changes no node: pipe
\* sources, selectors, modes and every other field stay as they were.
C12_InvalidCompositionFails ==
  [][InvalidCompose =>
       /\ mpc' = "ret"
       /\ merr' = "TypeError"
       /\ cfgVars' = cfgVars
       /\ \A n \in Nodes : NodeState(n)' = NodeState(n)]_vars

\* An invalid composition failed on a node that had been composed before.
C12_Witness ==
  /\ mop \in ComposeOps
  /\ mpc = "ret"
  /\ macc = NonNode
  /\ merr = "TypeError"
  /\ pipe_in[mn] = FromNode("B")
  /\ pipe_in_type[mn] = "ALL"

\* run() on a background node has returned (without raising).
BackgroundRunReturned ==
  mop = "run" /\ mpc = "ret" /\ merr = "none" /\ concurrent[mn]

\* C13: when run() returns on a node in background mode, the process
\* handle exists, so pid is not absent; run() does not wait for the
\* process to exit (the witness is such a state).
C13_BackgroundRunReturns ==
  BackgroundRunReturned => (process[mn] # 0 /\ pid(mn) # None)

\* run() has returned while the process is still running, its drainers
\* are not started or not done and no buffer is finalized.
C13_Witness ==
  /\ BackgroundRunReturned
  /\ runs[mn] = 1
  /\ alive[mn] = "running"
  /\ thread[mn] = "alive"
  /\ _stdout[mn] = None
  /\ _all[mn] = None

\* finish() has returned on a node whose run() had been called.
FinishReturned == mop = "finish" /\ mpc = "ret" /\ has_run[mn]

\* C14: when finish() returns on a node that has been run, in either mode,
\* both of the node's drainer threads and its execution thread have
\* terminated and its stdout and combined buffers are finalized.
C14_FinishJoins ==
  FinishReturned =>
    /\ \A s \in Streams : ~DrainerAlive(mn, s)
    /\ thread[mn] # "alive"
    /\ Finalized(mn)

\* _run of node n is past its stdin step (lines 78-79).
PastStdinStep(n) ==
  rpc[n] \in {"join_out", "join_err", "fin1", "fin2", "fin3", "finish", "done"}

\* C15: once a node with no pipe source has been spawned and _run is past
\* its stdin step, the process's stdin has been closed and nothing was
\* written to it.
C15_StdinClosedWithoutSource ==
  \A n \in nodes :
    (pipe_in[n].kind = "none" /\ spawns[n] >= 1 /\ PastStdinStep(n)) =>
      (stdin_closed[n] /\ stdin[n] = << >>)

\* C16: a synchronous run() of the tail node B of A | B, with A's process
\* exiting on its own and B's process exiting at the end of its input,
\* eventually returns with B finished.
C16_TailRunReturns ==
  (mop = "run" /\ mn = "B" /\ mpc = "run_wait") ~>
    (mop = "run" /\ mn = "B" /\ mpc = "ret" /\ Completed("B"))

\* C17: in every reachable state, a node whose finalized stdout, stderr or
\* combined buffer is set has both of its drainer threads terminated, so
\* an accessor never returns bytes that a drainer can still append to.
C17_FinalizeAfterJoin ==
  \A n \in nodes :
    (\E acc \in Accessors : AccessorValue(n, acc) # None) =>
      \A s \in Streams : dpc[n][s] = "done"

\* A node's stdout is finalized with the line its drainer read.
C17_Witness ==
  \E n \in nodes :
    /\ _stdout[n] = Some(<<"a", LF>>)
    /\ _all[n] # None
    /\ \A s \in Streams : dpc[n][s] = "done"

\* C18: once both drainers of a node have terminated, the combined buffer
\* holds every chunk appended to the stdout buffer and every chunk appended
\* to the stderr buffer: its length is the sum of their lengths.
C18_CombinedKeepsAll ==
  \A n \in nodes :
    (\A s \in Streams : dpc[n][s] = "done") =>
      Len(_all_buffer[n]) = Len(_stdout_buffer[n]) + Len(_stderr_buffer[n])

\* C19 as stated: a run() of a node of a self-referential or circular
\* chain never returns, here for the synchronous run, which resolves the
\* chain on the caller's thread.
C19_CycleRunNeverReturns == ~(mop = "run" /\ mpc = "ret" /\ ~concurrent[mn])

\* C19, amended: running a node of a self-referential or circular chain
\* does not recurse: no node of the chain is spawned more than once (run()
\* sets has_run before the source is resolved, so resolving never enters
\* run() of a node already entered), and the caller's run() returns.
C19_CycleRunsOnceAndReturns ==
  /\ [](\A n \in Nodes : spawns[n] <= 1)
  /\ (mop = "run" /\ mpc = "run_wait") ~> (mop = "run" /\ mpc = "ret")

\* A synchronous run on a circular chain of two nodes has returned; both
\* nodes were spawned once and the node is finished.
C19_Witness ==
  /\ mop = "run"
  /\ mpc = "ret"
  /\ nodes = {"A", "B"}
  /\ ~concurrent[mn]
  /\ \A n \in nodes : spawns[n] = 1
  /\ Completed(mn)

\* The consumer loop on a background node that had been run has exited.
LoopExited ==
  /\ mop = "loop"
  /\ mpc = "ret"
  /\ mret.kind = "none"
  /\ concurrent[mn]
  /\ has_run[mn]

\* C20: when the consumer loop on a background node has exited, it has
\* taken every line the drainers push: both queues are empty at the exit
\* and stay empty, no line being pushed after the exit condition was
\* observed.
C20_LoopReceivesAll ==
  LoopExited => stream_empty(mn)

====
